---- MODULE Spec2Model ----
(***************************************************************************)
(* A model of beat_this/model/pl_module.py: the Lightning module           *)
(* PLBeatThis (construction, training_step, validation_step, test_step,    *)
(* the loss and metric computation with its thread pool), the per-item     *)
(* scorer Metrics and the learning-rate schedule CosineWarmupScheduler.    *)
(*                                                                         *)
(* Real numbers are fixed-point integers with Scale units to 1.0.          *)
(* Tensors are sequences: x[e][f] is frame f of example e of a batch.      *)
(* Python dictionaries are functions whose domain is a set of strings.     *)
(***************************************************************************)
EXTENDS Integers, Sequences, FiniteSets, TLC

\* ------------------------------------------------------------------ bounds
Scale == 10000              \* fixed-point units to 1.0
MaxWarmup == 3              \* largest warmup the scheduler is built with
MaxIters == 4               \* largest max_iters the scheduler is built with
MaxStep == 6                \* last_epoch is stepped up to here
MaxBatch == 2               \* examples in a batch
MaxFrames == 2              \* frames of an example
SecondsPerFrame == 3        \* seconds from one frame to the next (1/fps)

\* --------------------------------------------------------------- constants
eval_trim_beats == 5        \* PLBeatThis.__init__'s default
pos_weight == 1             \* pos_weights' default, for either target

VARIABLES
    \* PLBeatThis
    pc,                \* where the module is: "new", "ready", inside a step, ...
    attrs,             \* the attributes __init__ has set so far
    kind,              \* the step that runs: "train", "val", "test", or "call"
    batch,             \* the batch the step handles
    model_prediction,  \* the step's local of that name
    mask_arg,          \* the mask handed to each target's loss function
    losses,            \* the step's loss bundle (None before _compute_loss)
    step,              \* the step argument of _compute_metrics
    target,            \* the target _compute_metrics_target works on
    futures,           \* executor.map's futures, one per example
    collected,         \* the results the map iterator has yielded so far
    done_metrics,      \* (batch_metric, piecewise) of the targets finished
    metrics,           \* _compute_metrics' result (None before it returns)
    logged,            \* what self.log has been handed for this batch
    phases,            \* the phases the step ran, in order
    exc,               \* the exception that ended the step, or "none"
    \* CosineWarmupScheduler
    scheduler,         \* its fields: warmup, max_num_iters, raise_to, ...
    lr_factor,         \* get_lr_factor's result at the last step()
    last_lr            \* get_lr's result at the last step()

module_vars == <<pc, attrs, kind, batch, model_prediction, mask_arg, losses,
                 step, target, futures, collected, done_metrics, metrics,
                 logged, phases, exc>>
sched_vars == <<scheduler, lr_factor, last_lr>>
vars == <<pc, attrs, kind, batch, model_prediction, mask_arg, losses,
          step, target, futures, collected, done_metrics, metrics,
          logged, phases, exc, scheduler, lr_factor, last_lr>>

None == "None"
NoExc == "none"
EmptyDict == [k \in {} |-> 0]

\* ------------------------------------------------------------- arithmetic
Min(a, b) == IF a <= b THEN a ELSE b

RECURSIVE SumSeq(_)
SumSeq(s) == IF s = <<>> THEN 0 ELSE Head(s) + SumSeq(Tail(s))

\* A computed number, or the exception the computation raised.
Value(v) == [exc |-> NoExc, value |-> v]
Raised(e) == [exc |-> e, value |-> 0]

\* Python's a / b on numbers: ZeroDivisionError when b is 0.
TrueDiv(a, b) == IF b = 0 THEN Raised("ZeroDivisionError")
                 ELSE Value((a * Scale) \div b)

\* a * b of two fixed-point numbers.
Mul(a, b) == (a * b) \div Scale

Pi == (355 * Scale) \div 113

\* cos on [0, pi/2]: the series 1 - x^2/2! + x^4/4! - x^6/6! + x^8/8!.
CosSeries(x) ==
    LET y  == Mul(x, x)
        t4 == Scale - y \div 56
        t3 == Scale - Mul(y, t4) \div 30
        t2 == Scale - Mul(y, t3) \div 12
    IN  Scale - Mul(y, t2) \div 2

\* np.cos, by reduction of the argument to [0, pi/2].
Cos(x) ==
    LET r == x % (2 * Pi)
        h == IF r > Pi THEN 2 * Pi - r ELSE r
    IN  IF h > Pi \div 2 THEN 0 - CosSeries(Pi - h) ELSE CosSeries(h)

\* ------------------------------------------------- CosineWarmupScheduler
RaiseLasts == {0, 25, 50}                 \* raise_last, in percent
RaiseTos == {Scale \div 4, Scale \div 2, Scale}   \* raise_to
base_lr == (8 * Scale) \div 10000         \* lr = 0.0008, of both groups

\* CosineWarmupScheduler.__init__: the fields it sets.
SchedulerInit(warmup, max_iters, raise_last, raise_to) ==
    [warmup |-> warmup,
     max_num_iters |-> ((100 - raise_last) * max_iters) \div 100,
     raise_to |-> raise_to,
     base_lrs |-> <<base_lr, base_lr>>,
     last_epoch |-> 0]

\* A ramp that is one step late: it divides by warmup + 1.
RampOffByOne(self, s, lr) ==
    LET q == TrueDiv(s, self.warmup + 1)
    IN  IF q.exc # NoExc THEN q ELSE Value(Mul(lr, q.value))

\* The linear ramp of the warmup: lr_factor *= step / self.warmup.
Ramp(self, s, lr) ==
    LET q == TrueDiv(s, self.warmup)
    IN  IF q.exc # NoExc THEN q ELSE Value(Mul(lr, q.value))

\* The branch of step < max_num_iters.
CosineBranch(self, s) ==
    LET progress == TrueDiv(s, self.max_num_iters)
        lr == (Scale + Cos(Mul(Pi, progress.value))) \div 2
    IN  IF s <= self.warmup THEN Ramp(self, s, lr) ELSE Value(lr)

\* The branch of step >= max_num_iters.
RaiseBranch(self, s) ==
    LET progress == TrueDiv(s - self.max_num_iters, self.warmup)
    IN  IF progress.exc # NoExc THEN progress
        ELSE Value(Mul(self.raise_to, Min(progress.value, Scale)))

get_lr_factor(self, s) ==
    IF s < self.max_num_iters THEN CosineBranch(self, s)
    ELSE RaiseBranch(self, s)

get_lr(self) ==
    LET f == get_lr_factor(self, self.last_epoch)
    IN  IF f.exc # NoExc THEN <<>>
        ELSE [g \in DOMAIN self.base_lrs |-> Mul(self.base_lrs[g], f.value)]

\* ------------------------------------------------------------ batches
\* The float64 buffer of the event times of one example: its whole
\* elements, and the bytes left over after the last whole element.
Buffer(times, extra) == [times |-> times, extra |-> extra]

FrameTime(f) == f * SecondsPerFrame

Frames == 1..MaxFrames

\* One example of the dataset: its last `pad` frames are padding, `ann` says
\* whether it has downbeat annotations, `beat` whether its last real frame is
\* a (down)beat, `damaged` which of its two buffers is cut short.
Example(pad, ann, beat, damaged) ==
    LET real == MaxFrames - pad
        onset == [f \in Frames |-> IF f = real /\ beat = 1 THEN 1 ELSE 0]
        times == IF beat = 1 THEN <<FrameTime(real)>> ELSE <<>>
    IN  [spect |-> [f \in Frames |-> IF f <= real THEN 1 ELSE 0],
         padding_mask |-> [f \in Frames |-> IF f <= real THEN 1 ELSE 0],
         loss_mask |-> <<1, ann>>,
         truth_beat |-> onset,
         truth_downbeat |-> [f \in Frames |-> onset[f] * ann],
         truth_orig_beat |->
             Buffer(times, IF damaged = "beat" THEN 4 ELSE 0),
         truth_orig_downbeat |->
             Buffer(IF ann = 1 THEN times ELSE <<>>,
                    IF damaged = "downbeat" THEN 4 ELSE 0)]

Examples ==
    { Example(pad, ann, beat, "no") :
        pad \in {0, 1}, ann \in {0, 1}, beat \in {0, 1} }
    \cup { Example(0, 1, 1, damaged) : damaged \in {"beat", "downbeat"} }

BatchFields == {"spect", "padding_mask", "loss_mask", "truth_beat",
                "truth_downbeat", "truth_orig_beat", "truth_orig_downbeat"}

\* The collate function: a batch is a dictionary of per-example sequences.
Collate(examples) ==
    [k \in BatchFields |-> [e \in DOMAIN examples |-> examples[e][k]]]

Batches ==
    UNION { { Collate(s) : s \in [1..n -> Examples] } : n \in 1..MaxBatch }

BatchSize(b) == Len(b["spect"])

\* ------------------------------------------------- external collaborators
\* BeatThis.forward: frame-wise logits for the two channels.
BeatThis(spect) ==
    [k \in {"beat", "downbeat"} |->
        [e \in DOMAIN spect |->
            [f \in DOMAIN spect[e] |->
                IF k = "beat" THEN spect[e][f]
                ELSE IF f % 2 = 0 THEN spect[e][f] ELSE 0]]]

\* The times of the frames of one example picked as events.
RECURSIVE PickEvents(_, _, _)
PickEvents(logits, pmask, f) ==
    IF f > Len(logits) THEN <<>>
    ELSE (IF logits[f] > 0 /\ pmask[f] = 1 THEN <<FrameTime(f)>> ELSE <<>>)
         \o PickEvents(logits, pmask, f + 1)

\* Postprocessor.__call__: adds the event times of either channel.
Postprocessor(pred, padding_mask) ==
    [k \in DOMAIN pred \cup {"postp_beat", "postp_downbeat"} |->
        IF k = "postp_beat"
        THEN [e \in DOMAIN pred["beat"] |->
                 PickEvents(pred["beat"][e], padding_mask[e], 1)]
        ELSE IF k = "postp_downbeat"
        THEN [e \in DOMAIN pred["downbeat"] |->
                 PickEvents(pred["downbeat"][e], padding_mask[e], 1)]
        ELSE pred[k]]

\* A loss function (logits, targets, mask) -> scalar: the cost of the frames
\* the mask keeps, a missed event weighing pos_weight.
FrameCost(logit, truth, w) ==
    IF logit = truth THEN 0 ELSE IF truth = 1 THEN w ELSE 1

RECURSIVE SumFrames(_, _, _, _, _)
SumFrames(logits, truth, mask, w, f) ==
    IF f > Len(logits) THEN 0
    ELSE mask[f] * FrameCost(logits[f], truth[f], w)
         + SumFrames(logits, truth, mask, w, f + 1)

RECURSIVE SumExamples(_, _, _, _, _)
SumExamples(logits, truth, mask, w, e) ==
    IF e > Len(logits) THEN 0
    ELSE SumFrames(logits[e], truth[e], mask[e], w, 1)
         + SumExamples(logits, truth, mask, w, e + 1)

LossFn(fn, logits, truth, mask) ==
    SumExamples(logits, truth, mask, fn.pos_weight, 1)

\* mir_eval.beat.trim_beats
trim_beats(beats, min_beat_time) ==
    SelectSeq(beats, LAMBDA t : t >= min_beat_time)

Range(s) == { s[i] : i \in DOMAIN s }
Matches(truth, preds) == Cardinality(Range(truth) \cap Range(preds))
Max(a, b) == IF a >= b THEN a ELSE b

\* mir_eval.beat.f_measure, cemgil and continuity: 0 when either is empty.
f_measure(truth, preds) ==
    IF truth = <<>> \/ preds = <<>> THEN 0
    ELSE (2 * Matches(truth, preds) * Scale) \div (Len(truth) + Len(preds))

cemgil(truth, preds) ==
    IF truth = <<>> \/ preds = <<>> THEN 0
    ELSE (Matches(truth, preds) * Scale) \div Max(Len(truth), Len(preds))

continuity(truth, preds) ==
    IF truth = <<>> \/ preds = <<>> THEN [CMLt |-> 0, AMLt |-> 0]
    ELSE [CMLt |-> IF truth = preds THEN Scale ELSE 0,
          AMLt |-> IF Matches(truth, preds) > 0 THEN Scale ELSE 0]

\* np.frombuffer: ValueError unless the buffer holds whole elements only.
frombuffer(buf) ==
    IF buf.extra # 0 THEN Raised("ValueError") ELSE Value(buf.times)

\* np.mean of a non-empty list
Mean(xs) == SumSeq(xs) \div Len(xs)

\* {**a, **b}
Merge(a, b) ==
    [k \in DOMAIN a \cup DOMAIN b |-> IF k \in DOMAIN b THEN b[k] ELSE a[k]]

\* ------------------------------------------------------------- Metrics
\* Metrics.__init__
MetricsInit(trim) == [min_beat_time |-> trim]

\* A scorer that takes any step other than "test" for "val".
Metrics_call_default(self, truth, preds, s) ==
    LET t == trim_beats(truth, self.min_beat_time)
        p == trim_beats(preds, self.min_beat_time)
        c == continuity(t, p)
    IN  IF s = "test"
        THEN Value([k \in {"F-measure", "Cemgil", "CMLt", "AMLt"} |->
                       IF k = "F-measure" THEN f_measure(t, p)
                       ELSE IF k = "Cemgil" THEN cemgil(t, p)
                       ELSE IF k = "CMLt" THEN c.CMLt ELSE c.AMLt])
        ELSE Value([k \in {"F-measure", "Cemgil"} |->
                       IF k = "F-measure" THEN f_measure(t, p)
                       ELSE cemgil(t, p)])

\* Metrics.__call__: the metric record of one example, or ValueError.
Metrics_call(self, truth, preds, s) ==
    LET t == trim_beats(truth, self.min_beat_time)
        p == trim_beats(preds, self.min_beat_time)
        c == continuity(t, p)
    IN  IF s = "val"
        THEN Value([k \in {"F-measure", "Cemgil"} |->
                       IF k = "F-measure" THEN f_measure(t, p)
                       ELSE cemgil(t, p)])
        ELSE IF s = "test"
        THEN Value([k \in {"F-measure", "Cemgil", "CMLt", "AMLt"} |->
                       IF k = "F-measure" THEN f_measure(t, p)
                       ELSE IF k = "Cemgil" THEN cemgil(t, p)
                       ELSE IF k = "CMLt" THEN c.CMLt ELSE c.AMLt])
        ELSE Raised("ValueError")

\* ---------------------------------------------------------- PLBeatThis
LossTypes == {"shift_tolerant_weighted_bce", "weighted_bce", "bce", "focal"}

\* What __init__ sets before it looks at loss_type.
AttrsBeforeLoss(loss_type) ==
    [k \in {"hparams", "model", "pos_weights"} |->
        IF k = "hparams" THEN [loss_type |-> loss_type]
        ELSE IF k = "model" THEN "BeatThis"
        ELSE [beat |-> pos_weight, downbeat |-> pos_weight]]

\* The two loss functions of a valid loss_type.
LossAttrs(loss_type) ==
    LET fn == IF loss_type = "shift_tolerant_weighted_bce"
              THEN [class |-> "ShiftTolerantBCELoss", pos_weight |-> pos_weight]
              ELSE IF loss_type = "weighted_bce"
              THEN [class |-> "BCEWithLogitsLoss", pos_weight |-> pos_weight]
              ELSE [class |-> "BCEWithLogitsLoss", pos_weight |-> 1]
    IN  [k \in {"beat_loss", "downbeat_loss"} |-> fn]

\* What __init__ sets after the loss functions.
AttrsAfterLoss ==
    [k \in {"postprocessor", "metrics"} |->
        IF k = "postprocessor" THEN "minimal"
        ELSE MetricsInit(eval_trim_beats)]

\* PLBeatThis.__init__: the attributes set, and the exception raised if any.
PLBeatThis_init(loss_type) ==
    IF loss_type \in {"shift_tolerant_weighted_bce", "weighted_bce", "bce"}
    THEN [exc |-> NoExc,
          attrs |-> Merge(Merge(AttrsBeforeLoss(loss_type),
                                LossAttrs(loss_type)),
                          AttrsAfterLoss)]
    ELSE [exc |-> "ValueError", attrs |-> AttrsBeforeLoss(loss_type)]

\* The mask _compute_loss hands to the loss function of each target.
LossMasks(b) ==
    LET mask == [e \in DOMAIN b["padding_mask"] |->
                    [f \in DOMAIN b["padding_mask"][e] |->
                        b["padding_mask"][e][f] * b["loss_mask"][e][2]]]
    IN  [k \in {"beat", "downbeat"} |-> mask]

\* sum(losses.values()) of the two channel losses
TotalLoss(beat, downbeat) == 0 + beat + downbeat

\* PLBeatThis._compute_loss
compute_loss(self, b, pred) ==
    LET m == LossMasks(b)
        beat == LossFn(self["beat_loss"], pred["beat"], b["truth_beat"],
                       m["beat"])
        downbeat == LossFn(self["downbeat_loss"], pred["downbeat"],
                           b["truth_downbeat"], m["downbeat"])
    IN  [k \in {"beat", "downbeat", "total"} |->
            IF k = "beat" THEN beat
            ELSE IF k = "downbeat" THEN downbeat
            ELSE TotalLoss(beat, downbeat)]

\* A compute_item that catches what scoring raises and scores the example
\* against no ground truth.
compute_item_tolerant(self, pospt_pred, truth_orig_target, s) ==
    LET piece_truth_time == frombuffer(truth_orig_target)
        m == Metrics_call(self["metrics"], piece_truth_time.value,
                          pospt_pred, s)
        z == Metrics_call(self["metrics"], <<>>, pospt_pred, "val")
    IN  IF piece_truth_time.exc # NoExc \/ m.exc # NoExc
        THEN Value(<<z.value, <<>>>>)
        ELSE Value(<<m.value, piece_truth_time.value>>)

\* compute_item of _compute_metrics_target: (metrics, piece_truth_time).
compute_item(self, pospt_pred, truth_orig_target, s) ==
    LET piece_truth_time == frombuffer(truth_orig_target)
        m == Metrics_call(self["metrics"], piece_truth_time.value,
                          pospt_pred, s)
    IN  IF piece_truth_time.exc # NoExc THEN piece_truth_time
        ELSE IF m.exc # NoExc THEN m
        ELSE Value(<<m.value, piece_truth_time.value>>)

Pending == [state |-> "pending", exc |-> NoExc, value |-> 0]

\* An iterator that yields the results as they complete: the last of the
\* finished futures not yet taken, if there is one.
NextFutureCompleted(futs, taken) ==
    LET ready == { e \in DOMAIN futs :
                     /\ futs[e].state = "finished"
                     /\ \A i \in DOMAIN taken : taken[i] # e }
    IN  IF ready = {} THEN Len(taken) + 1
        ELSE CHOOSE e \in ready : \A o \in ready : o <= e

\* The future whose result executor.map's iterator yields next, `taken`
\* being the futures it has yielded: the futures come in submission order.
NextFuture(futs, taken) == Len(taken) + 1

\* A reduction that keys the batch metric by the metric name alone.
ReduceNoSuffix(piecewise_metrics, tgt, s) ==
    LET keys == DOMAIN piecewise_metrics[1]
        column(key) == [i \in DOMAIN piecewise_metrics |->
                           piecewise_metrics[i][key]]
    IN  [batch_metric |-> [k \in keys |-> Mean(column(k))],
         piecewise |->
            IF s = "test"
            THEN [k \in {"F-measure", "CMLt", "AMLt"} |-> column(k)]
            ELSE EmptyDict]

\* Lines 115-123: the batch metric and the piecewise lists of one target.
Reduce(piecewise_metrics, tgt, s) ==
    LET keys == DOMAIN piecewise_metrics[1]
        column(key) == [i \in DOMAIN piecewise_metrics |->
                           piecewise_metrics[i][key]]
    IN  [batch_metric |->
            [k \in { key \o "_" \o tgt : key \in keys } |->
                Mean(column(CHOOSE key \in keys : key \o "_" \o tgt = k))],
         piecewise |->
            IF s = "test"
            THEN [k \in { key \o "_" \o tgt :
                            key \in {"F-measure", "CMLt", "AMLt"} } |->
                     column(CHOOSE key \in {"F-measure", "CMLt", "AMLt"} :
                                key \o "_" \o tgt = k)]
            ELSE EmptyDict]

\* log_losses: the keys and values it hands to self.log, or KeyError.
log_losses(l, s) ==
    IF {"beat", "downbeat", "total"} \subseteq DOMAIN l
    THEN Value([k \in { s \o "_loss_" \o t :
                          t \in {"beat", "downbeat", "total"} } |->
                   l[CHOOSE t \in {"beat", "downbeat", "total"} :
                         s \o "_loss_" \o t = k]])
    ELSE Raised("KeyError")

\* log_metrics: the keys and values it hands to self.log.
log_metrics(m, s) ==
    [k \in { s \o "_" \o key : key \in DOMAIN m } |->
        m[CHOOSE key \in DOMAIN m : s \o "_" \o key = k]]

\* The scheduler plays no part in a run of the module alone.
SchedulerIdle == scheduler = None /\ lr_factor = None /\ last_lr = None

\* The locals of a step before it starts.
NoStep ==
    /\ kind = None /\ batch = EmptyDict /\ model_prediction = EmptyDict
    /\ mask_arg = EmptyDict /\ losses = EmptyDict /\ step = None
    /\ target = None /\ futures = <<>> /\ collected = <<>>
    /\ done_metrics = <<>> /\ metrics = EmptyDict /\ logged = EmptyDict
    /\ phases = <<>> /\ exc = NoExc

\* Before PLBeatThis(...) is called.
Init == pc = "new" /\ attrs = EmptyDict /\ NoStep /\ SchedulerIdle

\* PLBeatThis.__init__
PLBeatThis(loss_type) ==
    /\ pc = "new"
    /\ LET r == PLBeatThis_init(loss_type)
       IN  /\ attrs' = r.attrs
           /\ exc' = r.exc
           /\ pc' = IF r.exc = NoExc THEN "ready" ELSE "raised"
    /\ UNCHANGED <<kind, batch, model_prediction, mask_arg, losses, step,
                   target, futures, collected, done_metrics, metrics, logged,
                   phases, sched_vars>>

\* A step starts on a fresh batch with the forward pass.
StartStep(k, b, next_pc, s) ==
    /\ kind' = k
    /\ batch' = b
    /\ model_prediction' = BeatThis(b["spect"])
    /\ phases' = <<"forward">>
    /\ pc' = next_pc
    /\ step' = s
    /\ UNCHANGED <<attrs, mask_arg, losses, target, futures, collected,
                   done_metrics, metrics, logged, exc, sched_vars>>

\* training_step, up to the call of _compute_loss
training_step ==
    /\ pc = "ready"
    /\ \E b \in Batches : StartStep("train", b, "loss", None)

\* validation_step, up to the call of _compute_loss
validation_step ==
    /\ pc = "ready"
    /\ \E b \in Batches : StartStep("val", b, "loss", None)

\* test_step, up to the call of _compute_metrics
test_step ==
    /\ pc = "ready"
    /\ \E b \in Batches : StartStep("test", b, "metrics", "test")

\* self._compute_metrics(batch, model_prediction, step=s) called on its own,
\* on the postprocessed predictions of a batch and with any step argument.
Steps == {"val", "test", "train"}

call_compute_metrics ==
    /\ pc = "ready"
    /\ \E b \in Batches, s \in Steps :
          /\ kind' = "call"
          /\ batch' = b
          /\ model_prediction' = Postprocessor(BeatThis(b["spect"]),
                                               b["padding_mask"])
          /\ step' = s
    /\ pc' = "metrics"
    /\ UNCHANGED <<attrs, mask_arg, losses, target, futures, collected,
                   done_metrics, metrics, logged, phases, exc, sched_vars>>

\* self._compute_loss(batch, model_prediction), in training_step and
\* validation_step
call_compute_loss ==
    /\ pc = "loss"
    /\ losses' = compute_loss(attrs, batch, model_prediction)
    /\ mask_arg' = LossMasks(batch)
    /\ phases' = Append(phases, "loss")
    /\ pc' = IF kind = "train" THEN "log" ELSE "postprocess"
    /\ UNCHANGED <<attrs, kind, batch, model_prediction, step, target,
                   futures, collected, done_metrics, metrics, logged, exc,
                   sched_vars>>

\* self.postprocessor(model_prediction, batch["padding_mask"]), in
\* validation_step, and the call of _compute_metrics with step="val"
call_postprocessor ==
    /\ pc = "postprocess"
    /\ model_prediction' = Postprocessor(model_prediction,
                                         batch["padding_mask"])
    /\ phases' = Append(phases, "postprocess")
    /\ step' = "val"
    /\ pc' = "metrics"
    /\ UNCHANGED <<attrs, kind, batch, mask_arg, losses, target, futures,
                   collected, done_metrics, metrics, logged, exc, sched_vars>>

\* The target _compute_metrics turns to next: beat, then downbeat.
NextTarget == IF done_metrics = <<>> THEN "beat" ELSE "downbeat"

\* _compute_metrics_target, up to executor.map's submission of one task per
\* example; the lookup of the postprocessed predictions may raise KeyError.
submit ==
    /\ pc = "metrics"
    /\ target' = NextTarget
    /\ phases' = IF done_metrics = <<>> /\ kind # "call"
                 THEN Append(phases, "metrics") ELSE phases
    /\ IF ("postp_" \o NextTarget) \in DOMAIN model_prediction
       THEN /\ futures' = [e \in 1..BatchSize(batch) |-> Pending]
            /\ pc' = "map"
            /\ exc' = exc
       ELSE /\ futures' = futures
            /\ pc' = "raised"
            /\ exc' = "KeyError"
    /\ collected' = <<>>
    /\ UNCHANGED <<attrs, kind, batch, model_prediction, mask_arg, losses,
                   step, done_metrics, metrics, logged, sched_vars>>

\* A worker of the pool runs compute_item on example e.
run_compute_item(e) ==
    /\ pc = "map"
    /\ futures[e].state = "pending"
    /\ LET r == compute_item(attrs,
                             model_prediction["postp_" \o target][e],
                             batch["truth_orig_" \o target][e], step)
       IN  futures' = [futures EXCEPT ![e] =
                          [state |-> "finished", exc |-> r.exc,
                           value |-> r.value]]
    /\ UNCHANGED <<pc, attrs, kind, batch, model_prediction, mask_arg,
                   losses, step, target, collected, done_metrics, metrics,
                   logged, phases, exc, sched_vars>>

Taken == [i \in DOMAIN collected |-> collected[i].future]

\* zip(*executor.map(...)) takes the next result: the result of a future
\* that raised is its exception, which leaves the with block; the futures
\* not yet started are cancelled.
map_next ==
    /\ pc = "map"
    /\ Len(collected) < Len(futures)
    /\ LET k == NextFuture(futures, Taken)
       IN  /\ futures[k].state = "finished"
           /\ IF futures[k].exc = NoExc
              THEN /\ collected' = Append(collected,
                                          [future |-> k,
                                           item |-> futures[k].value])
                   /\ UNCHANGED <<pc, exc, futures>>
              ELSE /\ pc' = "raised"
                   /\ exc' = futures[k].exc
                   /\ futures' = [e \in DOMAIN futures |->
                                     IF futures[e].state = "pending"
                                     THEN [futures[e] EXCEPT
                                              !.state = "cancelled"]
                                     ELSE futures[e]]
                   /\ UNCHANGED collected
    /\ UNCHANGED <<attrs, kind, batch, model_prediction, mask_arg, losses,
                   step, target, done_metrics, metrics, logged, phases,
                   sched_vars>>

\* _compute_metrics_target, after the with block: the batch metric and the
\* piecewise lists of the target.
reduce ==
    /\ pc = "map"
    /\ Len(collected) = Len(futures)
    /\ LET piecewise_metrics == [i \in DOMAIN collected |->
                                    collected[i].item[1]]
       IN  done_metrics' = Append(done_metrics,
                                  Reduce(piecewise_metrics, target, step))
    /\ pc' = IF target = "beat" THEN "metrics" ELSE "merge"
    /\ UNCHANGED <<attrs, kind, batch, model_prediction, mask_arg, losses,
                   step, target, futures, collected, metrics, logged, phases,
                   exc, sched_vars>>

\* _compute_metrics, lines 92-95: the two targets' dictionaries merged.
merge ==
    /\ pc = "merge"
    /\ metrics' = [metrics |-> Merge(done_metrics[1].batch_metric,
                                     done_metrics[2].batch_metric),
                   piecewise |-> Merge(done_metrics[1].piecewise,
                                       done_metrics[2].piecewise)]
    /\ pc' = IF kind = "call" THEN "returned" ELSE "log"
    /\ UNCHANGED <<attrs, kind, batch, model_prediction, mask_arg, losses,
                   step, target, futures, collected, done_metrics, logged,
                   phases, exc, sched_vars>>

\* The logging that ends a step: log_losses in training_step; log_losses,
\* then log_metrics in validation_step; in test_step log_losses of the
\* first result of _compute_metrics, then log_slow_metrics, which
\* PLBeatThis does not define.
log ==
    /\ pc = "log"
    /\ LET arg == IF kind = "test" THEN metrics.metrics ELSE losses
           l == log_losses(arg, kind)
       IN  IF l.exc # NoExc
           THEN /\ pc' = "raised" /\ exc' = l.exc
                /\ UNCHANGED <<logged, phases>>
           ELSE IF kind = "train"
           THEN /\ logged' = l.value
                /\ phases' = Append(phases, "log_losses")
                /\ pc' = "done" /\ exc' = exc
           ELSE IF kind = "val"
           THEN /\ logged' = Merge(l.value,
                                   log_metrics(metrics.metrics, "val"))
                /\ phases' = phases \o <<"log_losses", "log_metrics">>
                /\ pc' = "done" /\ exc' = exc
           ELSE /\ logged' = l.value
                /\ phases' = Append(phases, "log_losses")
                /\ pc' = "raised" /\ exc' = "AttributeError"
    /\ UNCHANGED <<attrs, kind, batch, model_prediction, mask_arg, losses,
                   step, target, futures, collected, done_metrics, metrics,
                   sched_vars>>

\* The step returns to the trainer, and its locals are gone.
step_return ==
    /\ pc \in {"done", "returned"}
    /\ pc' = "ready"
    /\ kind' = None /\ batch' = EmptyDict /\ model_prediction' = EmptyDict
    /\ mask_arg' = EmptyDict /\ losses' = EmptyDict /\ step' = None
    /\ target' = None /\ futures' = <<>> /\ collected' = <<>>
    /\ done_metrics' = <<>> /\ metrics' = EmptyDict /\ logged' = EmptyDict
    /\ phases' = <<>> /\ exc' = NoExc
    /\ UNCHANGED <<attrs, sched_vars>>

MetricsNext ==
    \/ submit
    \/ \E e \in DOMAIN futures : run_compute_item(e)
    \/ map_next
    \/ reduce
    \/ merge

Next ==
    \/ \E loss_type \in LossTypes : PLBeatThis(loss_type)
    \/ training_step
    \/ validation_step
    \/ test_step
    \/ call_compute_metrics
    \/ call_compute_loss
    \/ call_postprocessor
    \/ MetricsNext
    \/ log
    \/ step_return

Spec == Init /\ [][Next]_vars

\* The module plays no part in a run of the scheduler alone.
ModuleIdle ==
    /\ pc = "idle" /\ attrs = EmptyDict /\ kind = None /\ batch = EmptyDict
    /\ model_prediction = EmptyDict /\ mask_arg = EmptyDict
    /\ losses = EmptyDict /\ step = None /\ target = None
    /\ futures = <<>> /\ collected = <<>> /\ done_metrics = <<>>
    /\ metrics = EmptyDict /\ logged = EmptyDict /\ phases = <<>>
    /\ exc = NoExc

\* The scheduler as constructed: __init__ ends with the base class's first
\* step(), which computes the rates of last_epoch = 0.
InitSched ==
    /\ ModuleIdle
    /\ \E warmup \in 0..MaxWarmup, max_iters \in 0..MaxIters,
          raise_last \in RaiseLasts, raise_to \in RaiseTos :
          scheduler = SchedulerInit(warmup, max_iters, raise_last, raise_to)
    /\ lr_factor = get_lr_factor(scheduler, 0)
    /\ last_lr = get_lr(scheduler)

\* scheduler.step(), once per optimizer update; an exception ends training.
scheduler_step ==
    /\ lr_factor.exc = NoExc
    /\ scheduler.last_epoch < MaxStep
    /\ scheduler' = [scheduler EXCEPT !.last_epoch = @ + 1]
    /\ lr_factor' = get_lr_factor(scheduler', scheduler'.last_epoch)
    /\ last_lr' = get_lr(scheduler')
    /\ UNCHANGED module_vars

NextSched == scheduler_step

SpecSched == InitSched /\ [][NextSched]_vars

\* ======================================================================
\* Properties
\* ======================================================================
IsPrefix(s, t) == Len(s) <= Len(t) /\ \A i \in 1..Len(s) : s[i] = t[i]

\* The phases the specification gives a step of kind k.
PhasesOf(k) ==
    IF k = "train" THEN <<"forward", "loss", "log_losses">>
    ELSE <<"forward", "loss", "postprocess", "metrics", "log_losses",
           "log_metrics">>

\* C1: every step runs its phases in the order forward, loss, (postprocess,
\* metrics,) log: at any moment the phases run so far are a prefix of that
\* order, and a step that is done has run all of them. training_step has no
\* postprocess and no metrics phase; validation_step and test_step have both.
C1_PhaseOrder ==
    kind \in {"train", "val", "test"} =>
        /\ IsPrefix(phases, PhasesOf(kind))
        /\ pc = "done" => phases = PhasesOf(kind)

\* C1, of training_step and validation_step alone: it holds.
C1_TrainValPhaseOrder ==
    kind \in {"train", "val"} =>
        /\ IsPrefix(phases, PhasesOf(kind))
        /\ pc = "done" => phases = PhasesOf(kind)

\* test_step goes from the forward pass to the metrics, and ends there.
C1_TestStepSkipsLoss ==
    kind = "test" /\ pc = "raised" /\ phases = <<"forward", "metrics">>

\* 0.5 * (1 + cos(pi * s / m)), the plain cosine value of step s.
CosineValue(s, m) == (Scale + Cos(Mul(Pi, TrueDiv(s, m).value))) \div 2

\* C2: with warmup == 0, get_lr_factor raises nothing at any step, and
\* below max_num_iters it returns the plain cosine value of the step.
C2_NoDivisionByZero ==
    scheduler.warmup = 0 =>
        /\ lr_factor.exc = NoExc
        /\ scheduler.last_epoch < scheduler.max_num_iters =>
               lr_factor.value = CosineValue(scheduler.last_epoch,
                                             scheduler.max_num_iters)

\* C3, as claimed: with warmup > 0, get_lr_factor(0) is 0 and
\* get_lr_factor(warmup) is the cosine value of step warmup, whatever the
\* relation between warmup and max_num_iters.
C3_RampReachesCosine ==
    scheduler.warmup > 0 =>
        /\ scheduler.last_epoch = 0 => lr_factor = Value(0)
        /\ (scheduler.last_epoch = scheduler.warmup
              /\ scheduler.max_num_iters > 0) =>
               lr_factor = Value(CosineValue(scheduler.warmup,
                                             scheduler.max_num_iters))

\* C3, amended: with warmup > 0, get_lr_factor(0) is 0, and
\* get_lr_factor(warmup) is the cosine value of step warmup whenever
\* warmup <= max_num_iters.
C3_RampReachesCosineWithinMax ==
    scheduler.warmup > 0 =>
        /\ scheduler.last_epoch = 0 => lr_factor = Value(0)
        /\ (scheduler.last_epoch = scheduler.warmup
              /\ scheduler.max_num_iters > 0
              /\ scheduler.warmup <= scheduler.max_num_iters) =>
               lr_factor = Value(CosineValue(scheduler.warmup,
                                             scheduler.max_num_iters))

\* The ramp has just ended below max_num_iters, at a positive rate.
C3_Witness ==
    /\ scheduler.warmup > 0
    /\ scheduler.last_epoch = scheduler.warmup
    /\ scheduler.warmup < scheduler.max_num_iters
    /\ lr_factor.exc = NoExc
    /\ lr_factor.value > 0

\* C4: for all inputs get_lr_factor returns a number, the number is not
\* negative, and at step == max_num_iters, where the cosine branch hands over
\* to the raise branch, it is raise_to * 0 == 0.
C4_NonNegativeContinuous ==
    /\ lr_factor.exc = NoExc
    /\ lr_factor.value >= 0
    /\ scheduler.last_epoch = scheduler.max_num_iters => lr_factor.value = 0

\* C4, of the schedulers with warmup > 0 alone: it holds.
C4_NonNegativeContinuousWithWarmup ==
    scheduler.warmup > 0 => C4_NonNegativeContinuous

LossKeys == {"beat", "downbeat", "total"}

IsLossBundle(l) ==
    /\ DOMAIN l = LossKeys
    /\ l["total"] = l["beat"] + l["downbeat"]

\* C5: each of training_step, validation_step and test_step computes the
\* loss bundle of its batch, with exactly the keys beat, downbeat and total
\* and total == beat + downbeat, and hands it to log_losses: a step that has
\* come to its logging, or has ended, holds such a bundle.
C5_LossBundle ==
    (kind \in {"train", "val", "test"} /\ pc \in {"log", "done", "raised"})
        => IsLossBundle(losses)

\* C5, of training_step and validation_step alone: it holds.
C5_TrainValLossBundle ==
    (kind \in {"train", "val"} /\ pc \in {"log", "done", "raised"})
        => IsLossBundle(losses)

ValKeys == {"F-measure_beat", "Cemgil_beat",
            "F-measure_downbeat", "Cemgil_downbeat"}
TestKeys == ValKeys \cup {"CMLt_beat", "AMLt_beat",
                          "CMLt_downbeat", "AMLt_downbeat"}

\* C6: what _compute_metrics returns has exactly the four keys of mode "val"
\* or the eight keys of mode "test", and holds every entry of the beat
\* target's batch metric and of the downbeat target's, none overwritten.
C6_MetricKeys ==
    DOMAIN metrics # {} =>
        /\ step = "val" => DOMAIN metrics.metrics = ValKeys
        /\ step = "test" => DOMAIN metrics.metrics = TestKeys
        /\ \A t \in {1, 2} :
             \A k \in DOMAIN done_metrics[t].batch_metric :
                 metrics.metrics[k] = done_metrics[t].batch_metric[k]
        /\ DOMAIN done_metrics[1].batch_metric
             \cap DOMAIN done_metrics[2].batch_metric = {}

\* _compute_metrics has returned in mode "test" on a batch of two or more.
C6_Witness ==
    /\ DOMAIN metrics # {}
    /\ step = "test"
    /\ BatchSize(batch) >= 2

ValidLossTypes == {"shift_tolerant_weighted_bce", "weighted_bce", "bce"}

\* C7: a PLBeatThis built with an invalid loss_type has raised ValueError
\* with no loss function, no postprocessor and no metrics object set; and a
\* Metrics call with a step other than "val" and "test" ends in ValueError
\* with no metric record, so that _compute_metrics returns no mapping.
C7_InvalidSelectorRaises ==
    /\ ("hparams" \in DOMAIN attrs
          /\ attrs["hparams"].loss_type \notin ValidLossTypes) =>
           /\ pc = "raised" /\ exc = "ValueError"
           /\ DOMAIN attrs \cap {"beat_loss", "downbeat_loss",
                                 "postprocessor", "metrics"} = {}
    /\ (kind = "call" /\ step \notin {"val", "test"}) =>
           /\ \A e \in DOMAIN futures :
                  futures[e].state = "finished" =>
                      futures[e].exc = "ValueError" /\ futures[e].value = 0
           /\ done_metrics = <<>>
           /\ DOMAIN metrics = {}
           /\ pc \in {"metrics", "map", "raised"}
           /\ pc = "raised" => exc = "ValueError"

\* The constructor has raised on the loss_type "focal".
C7_Witness ==
    /\ pc = "raised"
    /\ kind = None
    /\ exc = "ValueError"
    /\ attrs["hparams"].loss_type = "focal"

TargetOf(t) == IF t = 1 THEN "beat" ELSE "downbeat"

\* The metric record of example e of the batch for target tgt: the score of
\* its own predictions against its own ground truth.
ScoreOf(tgt, e) ==
    Metrics_call(attrs["metrics"], batch["truth_orig_" \o tgt][e].times,
                 model_prediction["postp_" \o tgt][e], step).value

\* C8: whatever the order in which the workers finish, the i-th result
\* collected is the metric record and the ground truth of the i-th example,
\* every batch metric is the mean of the examples' records, and the i-th
\* entry of every piecewise list is the i-th example's.
C8_OrderPreserved ==
    /\ \A i \in DOMAIN collected :
           /\ collected[i].future = i
           /\ collected[i].item[1] = ScoreOf(target, i)
           /\ collected[i].item[2] = batch["truth_orig_" \o target][i].times
    /\ \A t \in DOMAIN done_metrics :
           LET tgt == TargetOf(t)
               n == BatchSize(batch)
               bm == done_metrics[t].batch_metric
               pw == done_metrics[t].piecewise
           IN  /\ \A key \in DOMAIN ScoreOf(tgt, 1) :
                      bm[key \o "_" \o tgt]
                          = Mean([e \in 1..n |-> ScoreOf(tgt, e)[key]])
               /\ step = "test" =>
                      \A key \in {"F-measure", "CMLt", "AMLt"} :
                          pw[key \o "_" \o tgt]
                              = [e \in 1..n |-> ScoreOf(tgt, e)[key]]

\* Both targets are reduced in mode "test", the first two examples scoring
\* differently, so that their order shows in the piecewise list.
C8_Witness ==
    /\ Len(done_metrics) = 2
    /\ step = "test"
    /\ BatchSize(batch) >= 2
    /\ done_metrics[1].piecewise["F-measure_beat"][1]
         # done_metrics[1].piecewise["F-measure_beat"][2]

\* Scoring example e for target tgt fails: its buffer is cut short, or the
\* step is none the scorer knows.
ScoringFails(tgt, e) ==
    \/ batch["truth_orig_" \o tgt][e].extra # 0
    \/ step \notin {"val", "test"}

\* C9: if scoring any example of the batch fails for a target, that target
\* gets no batch metric and no piecewise list, _compute_metrics returns
\* nothing, and the step logs nothing for the batch.
C9_FailureAborts ==
    (kind \in {"val", "call"} /\ DOMAIN batch # {}) =>
        \A t \in {1, 2} :
            (\E e \in 1..BatchSize(batch) : ScoringFails(TargetOf(t), e)) =>
                /\ Len(done_metrics) < t
                /\ DOMAIN metrics = {}
                /\ DOMAIN logged = {}
                /\ pc \notin {"log", "done", "returned"}

\* validation_step has ended in the exception of the second example's
\* downbeat scoring, the beat target reduced and the first example scored.
C9_Witness ==
    /\ kind = "val"
    /\ pc = "raised"
    /\ exc = "ValueError"
    /\ target = "downbeat"
    /\ Len(done_metrics) = 1
    /\ Len(futures) >= 2
    /\ futures[1].exc = NoExc
    /\ futures[2].exc = "ValueError"
    /\ DOMAIN logged = {}

\* C10: a frame is unmasked for the downbeat loss exactly when it is not
\* padding and its example has downbeat annotations, and masked for the
\* beat loss exactly when it is padding.
C10_Masks ==
    DOMAIN mask_arg # {} =>
        \A e \in 1..BatchSize(batch) : \A f \in Frames :
            /\ mask_arg["downbeat"][e][f] = 1 <=>
                   (batch["padding_mask"][e][f] = 1
                      /\ batch["loss_mask"][e][2] = 1)
            /\ mask_arg["beat"][e][f] = 0 <=>
                   batch["padding_mask"][e][f] = 0

\* C10, of the downbeat loss alone: it holds.
C10_DownbeatMask ==
    DOMAIN mask_arg # {} =>
        \A e \in 1..BatchSize(batch) : \A f \in Frames :
            mask_arg["downbeat"][e][f] = 1 <=>
                (batch["padding_mask"][e][f] = 1
                   /\ batch["loss_mask"][e][2] = 1)

====
